---- MODULE Spec2Model ----
(***************************************************************************)
(* Death2Data gateway (src/gateway.py): token issuance, one-way storage,   *)
(* verification with expiry, login logging with retention pruning, and the *)
(* request handler that calls them.                                        *)
(*                                                                         *)
(* Text is a sequence of one-character strings.  A Python value that may   *)
(* be None is a record [isNone, s].  The clock counts ticks; TicksPerDay   *)
(* ticks make one whole unit of the ISO text, the rest is its fraction.    *)
(***************************************************************************)
EXTENDS Integers, Sequences, FiniteSets, TLC

\* ------------------------------------------------------------------ bounds
TicksPerDay == 2
MaxAdvances == 2
MaxLogins == 2
Backlog == 49

\* ------------------------------------------------------- program constants
LOGIN_RETENTION_DAYS == 90
TOKEN_DAYS == 28
UA_LIMIT == 200

VARIABLES
    db,        \* the SQLite file: [schema, tokens, logins, seq]
    now,       \* datetime.utcnow(), in ticks
    advances,  \* how many times the clock has moved
    pc,        \* per server process: position in __main__ / do_GET
    req,       \* per server process: the request being handled
    issuedAt,  \* history: plaintext -> tick at which it was first issued (-1: never)
    db2,       \* the database of a second run that gets the same requests
               \* with other search queries
    resp       \* per process: what it answered last, where a specification
               \* follows the answers (SpecFailure, SpecAgents)

vars == <<db, now, advances, pc, req, issuedAt, db2, resp>>

\* ------------------------------------------------------------ Python values
None == [isNone |-> TRUE, s |-> <<>>]
Str(s) == [isNone |-> FALSE, s |-> s]
Truthy(v) == ~v.isNone /\ Len(v.s) > 0

startswith(s, p) == Len(s) >= Len(p) /\ SubSeq(s, 1, Len(p)) = p

Slice(s, n) == SubSeq(s, 1, IF Len(s) < n THEN Len(s) ELSE n)

\* ------------------------------------------------------------------- tokens
PREFIX == <<"d", "2", "d", "_">>

\* secrets.token_urlsafe(24): the values it takes in the model
Secrets == {"a", "b"}

\* f"d2d_{random_bytes}"
MakeToken(secret) == PREFIX \o <<secret>>

Alphabet == <<"d", "2", "_", "a", "b", "c", "e", "x">>
Code(c) == CHOOSE i \in 1..Len(Alphabet) : Alphabet[i] = c

RECURSIVE Num(_)
Num(s) == IF s = <<>> THEN 0
          ELSE Num(SubSeq(s, 1, Len(s) - 1)) * (Len(Alphabet) + 1) + Code(s[Len(s)])

HexDigits == <<"0", "1", "2", "3", "4", "5", "6", "7",
               "8", "9", "a", "b", "c", "d", "e", "f">>
Hex4(n) == <<HexDigits[((n \div 4096) % 16) + 1], HexDigits[((n \div 256) % 16) + 1],
             HexDigits[((n \div 16) % 16) + 1], HexDigits[(n % 16) + 1]>>

\* Faulty variant of hash_token: the text itself instead of its digest.
hash_token_plain(token) == token

\* SHA-256 in hex text: deterministic and collision-free on the texts of the
\* model (an odd multiplier is a bijection modulo 16^4, and Num is injective
\* and below 16^4 on texts of up to five characters).
Sha256Hex(text) == Hex4((Num(text) * 40503 + 12345) % 65536)

\* The digests of the texts the model hashes, computed once.
Malformed == <<"x", "x">>
Tokens == {MakeToken(c) : c \in Secrets}
Digests == [text \in Tokens \cup {Malformed, <<>>, PREFIX, PREFIX \o <<"x">>}
               |-> Sha256Hex(text)]

\* hashlib.sha256(token.encode()).hexdigest()
hash_token(token) == IF token \in DOMAIN Digests THEN Digests[token] ELSE Sha256Hex(token)

\* --------------------------------------------------------------- timestamps
timedelta(days) == days * TicksPerDay

\* datetime.isoformat(): the fraction is left out when it is zero.
isoformat(t) == IF t % TicksPerDay = 0 THEN <<t \div TicksPerDay>>
                ELSE <<t \div TicksPerDay, t % TicksPerDay>>

\* datetime.fromisoformat()
fromisoformat(x) == x[1] * TicksPerDay + (IF Len(x) > 1 THEN x[2] ELSE 0)

\* SQLite's comparison of two TEXT values (fields of fixed width, then the
\* optional fraction): a proper prefix sorts first.
TextLess(x, y) ==
    \/ x[1] < y[1]
    \/ /\ x[1] = y[1]
       /\ \/ Len(x) = 1 /\ Len(y) > 1
          \/ Len(x) > 1 /\ Len(y) > 1 /\ x[2] < y[2]

\* ----------------------------------------------------------------- database
EmptyDb == [schema |-> FALSE, tokens |-> {}, logins |-> {}, seq |-> 0]

\* CREATE TABLE IF NOT EXISTS tokens / logins
init_database(d) == [d EXCEPT !.schema = TRUE]

\* Faulty variant of generate_token: INSERT OR REPLACE, so that a repeated secret
\* rewrites the row of the token issued before.
generate_token_replace(d, secret, t) ==
    LET h == hash_token(MakeToken(secret))
        row == [hash |-> h, created_at |-> isoformat(t),
                expires_at |-> isoformat(t + timedelta(TOKEN_DAYS))]
    IN [ok |-> TRUE,
        db |-> [d EXCEPT !.tokens = {r \in @ : r.hash # h} \cup {row}],
        token |-> MakeToken(secret), hash |-> h]

\* Faulty variant of generate_token: the token expires when it is created.
generate_token_noexpiry(d, secret, t) ==
    LET h == hash_token(MakeToken(secret))
        row == [hash |-> h, created_at |-> isoformat(t), expires_at |-> isoformat(t)]
    IN IF \E r \in d.tokens : r.hash = h
       THEN [ok |-> FALSE, db |-> d, token |-> <<>>, hash |-> <<>>]
       ELSE [ok |-> TRUE, db |-> [d EXCEPT !.tokens = @ \cup {row}],
             token |-> MakeToken(secret), hash |-> h]

\* generate_token(): INSERT INTO tokens; hash is the PRIMARY KEY, so a second
\* insert of the same hash raises and leaves the table as it was.
generate_token(d, secret, t) ==
    LET h == hash_token(MakeToken(secret))
        row == [hash |-> h, created_at |-> isoformat(t),
                expires_at |-> isoformat(t + timedelta(TOKEN_DAYS))]
    IN IF \E r \in d.tokens : r.hash = h
       THEN [ok |-> FALSE, db |-> d, token |-> <<>>, hash |-> <<>>]
       ELSE [ok |-> TRUE, db |-> [d EXCEPT !.tokens = @ \cup {row}],
             token |-> MakeToken(secret), hash |-> h]

\* Faulty variant of verify_token: the expiry instant itself still counts as valid.
verify_token_inclusive(d, token, t) ==
    IF ~Truthy(token) \/ ~startswith(token.s, PREFIX)
    THEN [ok |-> FALSE, lookup |-> FALSE, db |-> d]
    ELSE LET rows == {r \in d.tokens : r.hash = hash_token(token.s)}
         IN [ok |-> \E r \in rows : t <= fromisoformat(r.expires_at),
             lookup |-> TRUE, db |-> d]

\* Faulty variant of verify_token: no cheap rejection, every candidate is looked up.
verify_token_noguard(d, token, t) ==
    LET rows == {r \in d.tokens : r.hash = hash_token(token.s)}
    IN [ok |-> \E r \in rows : t < fromisoformat(r.expires_at),
        lookup |-> TRUE, db |-> d]

\* Faulty variant of verify_token: a successful verification renews the token.
verify_token_renew(d, token, t) ==
    IF ~Truthy(token) \/ ~startswith(token.s, PREFIX)
    THEN [ok |-> FALSE, lookup |-> FALSE, db |-> d]
    ELSE LET rows == {r \in d.tokens : r.hash = hash_token(token.s)}
             ok == \E r \in rows : t < fromisoformat(r.expires_at)
             renewed == {[r EXCEPT !.expires_at = isoformat(t + timedelta(TOKEN_DAYS))] :
                             r \in rows}
         IN [ok |-> ok, lookup |-> TRUE,
             db |-> IF ok THEN [d EXCEPT !.tokens = (@ \ rows) \cup renewed] ELSE d]

\* verify_token(): ok is the value returned, lookup tells whether the tokens
\* table was read, db is the database after the call.
verify_token(d, token, t) ==
    IF ~Truthy(token) \/ ~startswith(token.s, PREFIX)
    THEN [ok |-> FALSE, lookup |-> FALSE, db |-> d]
    ELSE LET rows == {r \in d.tokens : r.hash = hash_token(token.s)}
         IN [ok |-> \E r \in rows : t < fromisoformat(r.expires_at),
             lookup |-> TRUE, db |-> d]

\* Faulty variant of log_login: a token that has a login row gets no second one.
log_login_dedup(d, token, ip, user_agent, t) ==
    LET row == [id |-> d.seq + 1,
                token_hash |-> hash_token(token),
                ip_address |-> ip,
                user_agent |-> Slice(IF Truthy(user_agent) THEN user_agent.s ELSE <<>>,
                                     UA_LIMIT),
                timestamp |-> isoformat(t)]
    IN IF \E l \in d.logins : l.token_hash = row.token_hash THEN d
       ELSE [d EXCEPT !.logins = @ \cup {row}, !.seq = @ + 1]

\* Faulty variant of log_login: the user agent is stored as it came.
log_login_nocap(d, token, ip, user_agent, t) ==
    LET row == [id |-> d.seq + 1,
                token_hash |-> hash_token(token),
                ip_address |-> ip,
                user_agent |-> IF Truthy(user_agent) THEN user_agent.s ELSE <<>>,
                timestamp |-> isoformat(t)]
    IN [d EXCEPT !.logins = @ \cup {row}, !.seq = @ + 1]

\* log_login(): INSERT INTO logins, id from AUTOINCREMENT.
log_login(d, token, ip, user_agent, t) ==
    LET row == [id |-> d.seq + 1,
                token_hash |-> hash_token(token),
                ip_address |-> ip,
                user_agent |-> Slice(IF Truthy(user_agent) THEN user_agent.s ELSE <<>>,
                                     UA_LIMIT),
                timestamp |-> isoformat(t)]
    IN [d EXCEPT !.logins = @ \cup {row}, !.seq = @ + 1]

\* Faulty variant of cleanup_old_logins: a row exactly at the cutoff goes too.
cleanup_old_logins_inclusive(d, t) ==
    LET cutoff == isoformat(t - timedelta(LOGIN_RETENTION_DAYS))
    IN [d EXCEPT !.logins = {l \in @ : TextLess(cutoff, l.timestamp)}]

\* Faulty variant of cleanup_old_logins: one run deletes one old row at most.
cleanup_old_logins_one(d, t) ==
    LET cutoff == isoformat(t - timedelta(LOGIN_RETENTION_DAYS))
        old == {l \in d.logins : TextLess(l.timestamp, cutoff)}
    IN IF old = {} THEN d
       ELSE [d EXCEPT !.logins = @ \ {CHOOSE l \in old : \A k \in old : l.id <= k.id}]

\* Faulty variant of cleanup_old_logins: the comparison is the wrong way
\* round, so the rows after the cutoff go and the old ones stay.
cleanup_old_logins_flipped(d, t) ==
    LET cutoff == isoformat(t - timedelta(LOGIN_RETENTION_DAYS))
    IN [d EXCEPT !.logins = {l \in @ : ~TextLess(cutoff, l.timestamp)}]

\* cleanup_old_logins(): DELETE FROM logins WHERE timestamp < cutoff
cleanup_old_logins(d, t) ==
    LET cutoff == isoformat(t - timedelta(LOGIN_RETENTION_DAYS))
    IN [d EXCEPT !.logins = {l \in @ : ~TextLess(l.timestamp, cutoff)}]

\* ------------------------------------------------------------ request input
Servers == {1}

BEARER == <<"B", "e", "a", "r", "e", "r", " ">>
\* (token query parameter, Authorization header) as they arrive
Credentials ==
    {[param |-> None, auth |-> <<>>],
     [param |-> None, auth |-> BEARER],
     [param |-> None, auth |-> <<"B", "a", "s", "i", "c", " ", "x">>],
     [param |-> Str(Malformed), auth |-> <<>>]}
    \cup {[param |-> Str(MakeToken(c)), auth |-> <<>>] : c \in Secrets \ {"b"}}
    \cup {[param |-> None, auth |-> BEARER \o MakeToken(c)] : c \in Secrets \ {"a"}}

Paths == {"/", "/search", "/health", "/other"}
Queries == {<<>>, <<"c", "a", "t">>}

CLIENT_ADDR == <<"9", ".", "9">>

\* (X-Forwarded-For, User-Agent) as they arrive
Headers ==
    {[xff |-> Str(<<" ", "1", ".", "2", " ", ",", "3", ".", "4">>), ua |-> None],
     [xff |-> Str(<<>>), ua |-> Str(MakeToken("a"))]}

RECURSIVE FirstEntry(_)
\* forwarded.split(",")[0]
FirstEntry(s) == IF s = <<>> \/ s[1] = "," THEN <<>>
                 ELSE <<s[1]>> \o FirstEntry(Tail(s))

RECURSIVE LStrip(_)
LStrip(s) == IF s # <<>> /\ s[1] = " " THEN LStrip(Tail(s)) ELSE s

RECURSIVE RStrip(_)
RStrip(s) == IF s # <<>> /\ s[Len(s)] = " " THEN RStrip(SubSeq(s, 1, Len(s) - 1)) ELSE s

\* str.strip()
Strip(s) == RStrip(LStrip(s))

\* Handler.get_client_ip()
get_client_ip(r) == IF Truthy(r.hdr.xff) THEN Strip(FirstEntry(r.hdr.xff.s))
                    ELSE CLIENT_ADDR

\* do_GET: token from the query parameter, else from "Authorization: Bearer"
ExtractToken(c) ==
    IF Truthy(c.param) THEN c.param
    ELSE IF startswith(c.auth, BEARER)
         THEN Str(SubSeq(c.auth, Len(BEARER) + 1, Len(c.auth)))
         ELSE c.param

\* Faulty variant of LoginCall: the search query is logged as the user agent.
LoginCallQuery(r) ==
    [token |-> r.token.s, ip |-> get_client_ip(r), ua |-> Str(r.q)]

\* do_GET: the arguments of its log_login call
LoginCall(r) ==
    [token |-> r.token.s, ip |-> get_client_ip(r), ua |-> r.hdr.ua]

\* Faulty variant of Authorized: a search goes on after a failed verification.
AuthorizedNoReturn(r, v) ==
    IF r.path = "/" THEN Truthy(r.token) /\ v.ok ELSE TRUE

\* do_GET: whether the request goes on to log_login
Authorized(r, v) ==
    IF r.path = "/" THEN Truthy(r.token) /\ v.ok ELSE v.ok

\* req[s] while no request is being handled
NoReq == [path |-> "", token |-> None, q |-> <<>>, ok |-> FALSE, nlog |-> 0,
          ts |-> -1]

\* the command-line process, beside the server processes
CLI == 0

\* resp[p] while process p has answered nothing
NoResp == [path |-> "", failed |-> FALSE, status |-> 0, page |-> "",
           raised |-> FALSE, wrote |-> FALSE]

\* the steps the clock takes: one tick, or one tick less than a token's lifetime
Jumps == {1, timedelta(TOKEN_DAYS) - 1}

\* -------------------------------------------------------------------- Init
Init ==
    /\ db = EmptyDb
    /\ db2 = EmptyDb
    /\ now = timedelta(LOGIN_RETENTION_DAYS)
    /\ advances = 0
    /\ pc = [s \in Servers |-> "down"]
    /\ req = [s \in Servers |-> NoReq]
    /\ issuedAt = [t \in Tokens |-> -1]
    /\ resp = [p \in Servers \cup {CLI} |-> NoResp]

\* ----------------------------------------------------------------- actions
\* The clock moves.
Advance ==
    /\ advances < MaxAdvances
    /\ \E j \in Jumps : now' = now + j
    /\ advances' = advances + 1
    /\ UNCHANGED <<db, db2, pc, req, issuedAt, resp>>

\* Faulty variant of Boot: the server accepts requests once the schema is
\* there, with the sweep left out.
Boot_serving(s) ==
    /\ pc[s] = "down"
    /\ db' = init_database(db)
    /\ db2' = init_database(db2)
    /\ pc' = [pc EXCEPT ![s] = "serving"]
    /\ UNCHANGED <<now, advances, req, issuedAt, resp>>

\* __main__: init_database()
Boot(s) ==
    /\ pc[s] = "down"
    /\ db' = init_database(db)
    /\ db2' = init_database(db2)
    /\ pc' = [pc EXCEPT ![s] = "inited"]
    /\ UNCHANGED <<now, advances, req, issuedAt, resp>>

\* __main__: cleanup_old_logins(), then serve_forever()
Sweep(s) ==
    /\ pc[s] = "inited"
    /\ db' = cleanup_old_logins(db, now)
    /\ db2' = cleanup_old_logins(db2, now)
    /\ pc' = [pc EXCEPT ![s] = "serving"]
    /\ UNCHANGED <<now, advances, req, issuedAt, resp>>

\* KeyboardInterrupt between two requests
Stop(s) ==
    /\ pc[s] = "serving"
    /\ pc' = [pc EXCEPT ![s] = "down"]
    /\ UNCHANGED <<db, db2, now, advances, req, issuedAt, resp>>

\* python gateway.py --generate-token, a process of its own:
\* init_database(), cleanup_old_logins(), generate_token()
GenerateTokenCmd ==
    \E secret \in Secrets :
        LET g == generate_token(cleanup_old_logins(init_database(db), now), secret, now)
            g2 == generate_token(cleanup_old_logins(init_database(db2), now), secret, now)
        IN /\ db' = g.db
           /\ db2' = g2.db
           /\ issuedAt' = IF g.ok /\ issuedAt[g.token] = -1
                          THEN [issuedAt EXCEPT ![g.token] = now] ELSE issuedAt
           /\ UNCHANGED <<now, advances, pc, req, resp>>

\* requests that are verified and have their login still to record; the model
\* admits no more of them than the logins it has room for
InFlight == Cardinality({s \in Servers : pc[s] = "verified"})

\* do_GET up to and including verify_token(): the path and the token are taken
\* from the request and the token is verified; a request that is not
\* authorized, or whose path needs no token, is answered at once.
Request(s) ==
    /\ pc[s] = "serving"
    /\ \E path \in Paths :
        IF path \in {"/", "/search"}
        THEN \E c \in Credentials :
            LET token == ExtractToken(c)
                called == path = "/search" \/ Truthy(token)
                v == IF called THEN verify_token(db, token, now)
                     ELSE [ok |-> FALSE, lookup |-> FALSE, db |-> db]
                v2 == IF called THEN verify_token(db2, token, now)
                      ELSE [ok |-> FALSE, lookup |-> FALSE, db |-> db2]
                r == [NoReq EXCEPT !.path = path, !.token = token, !.ok = v.ok]
            IN /\ db' = v.db
               /\ db2' = v2.db
               /\ IF Authorized(r, v)
                  THEN /\ db.seq + InFlight < MaxLogins
                       /\ req' = [req EXCEPT ![s] = r]
                       /\ pc' = [pc EXCEPT ![s] = "verified"]
                  ELSE /\ req' = [req EXCEPT ![s] = NoReq]
                       /\ pc' = pc
        ELSE /\ req' = [req EXCEPT ![s] = NoReq]
             /\ pc' = pc
             /\ UNCHANGED <<db, db2>>
    /\ UNCHANGED <<now, advances, issuedAt, resp>>

\* do_GET: log_login() with the client address and the user agent of the
\* request, then the search page unless there is a query to forward.  The
\* headers and the query are fixed by the request; the model draws them here,
\* where the handler first uses them.
RecordLogin(s) ==
    /\ pc[s] = "verified"
    /\ \E h \in Headers, q \in Queries, q2 \in Queries :
        LET r == [path |-> req[s].path, token |-> req[s].token, hdr |-> h,
                  q |-> IF req[s].path = "/search" THEN q ELSE <<>>]
            a == LoginCall(r)
            a2 == LoginCall([r EXCEPT !.q = q2])
            d == log_login(db, a.token, a.ip, a.ua, now)
            n == req[s].nlog + Cardinality(d.logins) - Cardinality(db.logins)
        IN /\ db' = d
           /\ db2' = log_login(db2, a2.token, a2.ip, a2.ua, now)
           /\ IF r.q # <<>>
              THEN /\ pc' = [pc EXCEPT ![s] = "logged"]
                   /\ req' = [req EXCEPT ![s].q = r.q, ![s].nlog = n]
              ELSE /\ pc' = [pc EXCEPT ![s] = "serving"]
                   /\ req' = [req EXCEPT ![s] = NoReq]
    /\ UNCHANGED <<now, advances, issuedAt, resp>>

\* do_GET: the query goes to SearXNG; its answer, or the exception, is shown
Forward(s) ==
    /\ pc[s] = "logged"
    /\ pc' = [pc EXCEPT ![s] = "serving"]
    /\ req' = [req EXCEPT ![s] = NoReq]
    /\ UNCHANGED <<db, db2, now, advances, issuedAt, resp>>

Next ==
    \/ Advance
    \/ GenerateTokenCmd
    \/ \E s \in Servers : Boot(s)
    \/ \E s \in Servers : Sweep(s)
    \/ \E s \in Servers : Stop(s)
    \/ \E s \in Servers : Request(s)
    \/ \E s \in Servers : RecordLogin(s)
    \/ \E s \in Servers : Forward(s)

Spec == Init /\ [][Next]_vars

\* ------------------------------------------------- retention specification
\* The clock moves by one tick.
Tick ==
    /\ advances < MaxAdvances
    /\ now' = now + 1
    /\ advances' = advances + 1
    /\ UNCHANGED <<db, db2, pc, req, issuedAt, resp>>

\* The clock moves by the retention window.
AdvanceRetention ==
    /\ advances < MaxAdvances
    /\ now' = now + timedelta(LOGIN_RETENTION_DAYS)
    /\ advances' = advances + 1
    /\ UNCHANGED <<db, db2, pc, req, issuedAt, resp>>

NextRetention ==
    \/ Tick
    \/ AdvanceRetention
    \/ GenerateTokenCmd
    \/ \E s \in Servers : Boot(s)
    \/ \E s \in Servers : Sweep(s)
    \/ \E s \in Servers : Stop(s)
    \/ \E s \in Servers : Request(s)
    \/ \E s \in Servers : RecordLogin(s)
    \/ \E s \in Servers : Forward(s)

\* What a started process does by itself happens; the clock, the operator
\* (start, stop, commands) and the clients are free to do nothing.
SpecRetention ==
    /\ Init
    /\ [][NextRetention]_vars
    /\ \A s \in Servers : WF_vars(Sweep(s))
    /\ \A s \in Servers : WF_vars(RecordLogin(s))
    /\ \A s \in Servers : WF_vars(Forward(s))

\* ----------------------------------------------- concurrency specification
\* Two gateway processes serve from the same database file. The table holds a
\* backlog of logins already, so that a listing has more rows to choose from
\* than it shows.
Workers == {1, 2}

SHOW_LIMIT == 50
SHOW_HASH == 16
SHOW_UA == 40

RECURSIVE TakeAsc(_, _, _, _)
\* up to n of the rows, from id i upwards to id top
TakeAsc(rows, i, top, n) ==
    IF i > top \/ n = 0 THEN <<>>
    ELSE LET S == {l \in rows : l.id = i}
         IN IF S = {} THEN TakeAsc(rows, i + 1, top, n)
            ELSE <<CHOOSE l \in S : TRUE>> \o TakeAsc(rows, i + 1, top, n - 1)

\* Faulty variant of select_logins: ORDER BY id ASC
select_logins_asc(d) == TakeAsc(d.logins, 1, d.seq, SHOW_LIMIT)

RECURSIVE TakeDesc(_, _, _)
\* up to n of the rows, from id i downwards
TakeDesc(rows, i, n) ==
    IF i = 0 \/ n = 0 THEN <<>>
    ELSE LET S == {l \in rows : l.id = i}
         IN IF S = {} THEN TakeDesc(rows, i - 1, n)
            ELSE <<CHOOSE l \in S : TRUE>> \o TakeDesc(rows, i - 1, n - 1)

\* --show-logins: SELECT ... FROM logins ORDER BY id DESC LIMIT 50
select_logins(d) == TakeDesc(d.logins, d.seq, SHOW_LIMIT)

\* --show-logins: the line printed for a row
show_line(row) ==
    <<row.timestamp, row.ip_address, Slice(row.token_hash, SHOW_HASH),
      Slice(row.user_agent, SHOW_UA)>>

\* --show-logins: what the command prints
show_logins(d) ==
    LET rows == select_logins(d) IN [i \in DOMAIN rows |-> show_line(rows[i])]

\* the table after n more logins with the token of secret "a" at instant t,
\* the i-th of them written to the table that has had i - 1 rows before
Logged(d, n, t) ==
    LET Row(i) == log_login([d EXCEPT !.seq = d.seq + i - 1, !.logins = {}],
                            MakeToken("a"), CLIENT_ADDR, None, t).logins
    IN [d EXCEPT !.logins = @ \cup UNION {Row(i) : i \in 1..n}, !.seq = @ + n]

InitConcurrent ==
    LET t0 == timedelta(LOGIN_RETENTION_DAYS)
        g == generate_token(init_database(EmptyDb), "a", t0)
    IN /\ db = Logged(g.db, Backlog, t0)
       /\ db2 = EmptyDb
       /\ now = t0
       /\ advances = 0
       /\ pc = [s \in Workers |-> "serving"]
       /\ req = [s \in Workers |-> NoReq]
       /\ issuedAt = [t \in Tokens |-> IF t = MakeToken("a") THEN t0 ELSE -1]
       /\ resp = [p \in Workers \cup {CLI} |-> NoResp]

\* requests of all workers that have their login still to write
Pending == Cardinality({w \in Workers : pc[w] \in {"verified", "stamped"}})

\* do_GET up to and including verify_token(), in one of the processes
Accept(s) ==
    /\ pc[s] = "serving"
    /\ \E path \in Paths, c \in Credentials :
        LET token == ExtractToken(c)
            called == path = "/search" \/ Truthy(token)
            v == IF called /\ path \in {"/", "/search"}
                 THEN verify_token(db, token, now)
                 ELSE [ok |-> FALSE, lookup |-> FALSE, db |-> db]
            r == [NoReq EXCEPT !.path = path, !.token = token, !.ok = v.ok]
        IN IF path \in {"/", "/search"} /\ Authorized(r, v)
           THEN /\ db.seq + Pending < Backlog + MaxLogins
                /\ pc' = [pc EXCEPT ![s] = "verified"]
                /\ req' = [req EXCEPT ![s] = r]
                /\ db' = v.db
           ELSE /\ db' = v.db
                /\ UNCHANGED <<pc, req>>
    /\ UNCHANGED <<db2, now, advances, issuedAt, resp>>

\* log_login(): the argument list of the INSERT is built, which reads the clock
Stamp(s) ==
    /\ pc[s] = "verified"
    /\ pc' = [pc EXCEPT ![s] = "stamped"]
    /\ req' = [req EXCEPT ![s].ts = now]
    /\ UNCHANGED <<db, db2, now, advances, issuedAt, resp>>

\* log_login(): INSERT and commit, one SQLite transaction
Insert(s) ==
    /\ pc[s] = "stamped"
    /\ \E h \in Headers, q \in Queries :
        LET r == [path |-> req[s].path, token |-> req[s].token, hdr |-> h,
                  q |-> IF req[s].path = "/search" THEN q ELSE <<>>]
            a == LoginCall(r)
        IN /\ db' = log_login(db, a.token, a.ip, a.ua, req[s].ts)
           /\ IF r.q # <<>>
              THEN /\ pc' = [pc EXCEPT ![s] = "logged"]
                   /\ req' = [req EXCEPT ![s].q = r.q, ![s].nlog = @ + 1]
              ELSE /\ pc' = [pc EXCEPT ![s] = "serving"]
                   /\ req' = [req EXCEPT ![s] = NoReq]
    /\ UNCHANGED <<db2, now, advances, issuedAt, resp>>

\* python gateway.py --show-logins, a process of its own:
\* init_database(), cleanup_old_logins(), then the listing is printed
ShowLoginsCmd ==
    /\ db' = cleanup_old_logins(init_database(db), now)
    /\ UNCHANGED <<db2, now, advances, pc, req, issuedAt, resp>>

NextConcurrent ==
    \/ Tick
    \/ ShowLoginsCmd
    \/ \E s \in Workers : Accept(s)
    \/ \E s \in Workers : Stamp(s)
    \/ \E s \in Workers : Insert(s)
    \/ \E s \in Workers : Forward(s)

SpecConcurrent == InitConcurrent /\ [][NextConcurrent]_vars

\* --------------------------------------------------- failure specification
\* Every use of the database file can fail (disk, permissions): sqlite3 then
\* raises, and nothing in gateway.py catches what sqlite3 raises.

\* what the process shows when an exception leaves the operation
Raised == [status |-> 0, page |-> "", raised |-> TRUE]

Answer(status, page) == [status |-> status, page |-> page, raised |-> FALSE]

\* Faulty variant of verify_token_st: except sqlite3.Error: return False
verify_token_st_swallow(d, token, t, up) ==
    LET v == verify_token(d, token, t)
    IN IF v.lookup /\ ~up
       THEN [ok |-> FALSE, raised |-> FALSE, db |-> d]
       ELSE [ok |-> v.ok, raised |-> FALSE, db |-> v.db]

\* verify_token() with a store that is up or not: the store is used after the
\* guard only
verify_token_st(d, token, t, up) ==
    LET v == verify_token(d, token, t)
    IN IF v.lookup /\ ~up
       THEN [ok |-> FALSE, raised |-> TRUE, db |-> d]
       ELSE [ok |-> v.ok, raised |-> FALSE, db |-> v.db]

\* log_login() with a store that is up or not
log_login_st(d, token, ip, user_agent, t, up) ==
    IF up THEN [raised |-> FALSE, db |-> log_login(d, token, ip, user_agent, t)]
    ELSE [raised |-> TRUE, db |-> d]

\* Faulty variant of Rejection: the page says why the token was turned down.
Rejection_reason(path, v) ==
    IF path = "/" THEN Answer(200, "landing_page")
    ELSE IF v.lookup THEN Answer(401, "unknown_or_expired")
    ELSE Answer(401, "malformed")

\* do_GET: the answer to a request that is not authorized
Rejection(path, v) ==
    IF path = "/" THEN Answer(200, "landing_page")
    ELSE Answer(401, "unauthorized_page")

\* do_GET as a whole, for the request r at instant t; st says whether the store
\* is up in verify_token and in log_login and whether SearXNG answers
do_GET(d, r, t, st) ==
    IF r.path \in {"/", "/search"}
    THEN LET called == r.path = "/search" \/ Truthy(r.token)
             v == IF called THEN verify_token_st(d, r.token, t, st.verify)
                  ELSE [ok |-> FALSE, raised |-> FALSE, db |-> d]
             vt == IF called THEN verify_token(d, r.token, t)
                   ELSE [ok |-> FALSE, lookup |-> FALSE, db |-> d]
             a == LoginCall(r)
             l == log_login_st(v.db, a.token, a.ip, a.ua, t, st.log)
         IN IF v.raised THEN [db |-> d, out |-> Raised]
            ELSE IF ~Authorized(r, v) THEN [db |-> v.db, out |-> Rejection(r.path, vt)]
            ELSE IF l.raised THEN [db |-> l.db, out |-> Raised]
            ELSE IF r.path = "/" \/ r.q = <<>>
                 THEN [db |-> l.db, out |-> Answer(200, "search_page")]
            ELSE IF st.upstream
                 THEN [db |-> l.db, out |-> Answer(200, "results_page")]
            ELSE [db |-> l.db, out |-> Answer(500, "Search error")]
    ELSE IF r.path = "/health" THEN [db |-> d, out |-> Answer(200, "ok")]
    ELSE [db |-> d, out |-> Answer(404, "Not found")]

AllUp == [verify |-> TRUE, log |-> TRUE, upstream |-> TRUE]

\* everything answers, or one of the three does not
Stores ==
    {AllUp, [AllUp EXCEPT !.verify = FALSE], [AllUp EXCEPT !.log = FALSE],
     [AllUp EXCEPT !.upstream = FALSE]}

\* a request without X-Forwarded-For and User-Agent headers
Bare == [xff |-> None, ua |-> None]

\* the record of an answer: the path, whether the store was down where the
\* request had to use it, what was shown and whether a row was written
Observed(r, st, o, d, t) ==
    LET called == r.path \in {"/", "/search"} /\ (r.path = "/search" \/ Truthy(r.token))
        v == verify_token(d, r.token, t)
        looked == called /\ v.lookup
        logs == called /\ Authorized(r, v)
    IN [path |-> r.path,
        failed |-> (looked /\ ~st.verify) \/ (logs /\ ~st.log),
        status |-> o.out.status, page |-> o.out.page, raised |-> o.out.raised,
        wrote |-> o.db.logins # d.logins]

\* __main__ of the server with a store that is up or not: init_database(),
\* cleanup_old_logins(), serve_forever()
StartServer(s) ==
    /\ pc[s] = "down"
    /\ \E up \in BOOLEAN :
        IF up
        THEN /\ db' = cleanup_old_logins(init_database(db), now)
             /\ pc' = [pc EXCEPT ![s] = "serving"]
             /\ resp' = [resp EXCEPT ![s] = NoResp]
        ELSE /\ resp' = [resp EXCEPT ![s] = [NoResp EXCEPT !.path = "start",
                                                          !.failed = TRUE,
                                                          !.raised = TRUE]]
             /\ UNCHANGED <<db, pc>>
    /\ UNCHANGED <<db2, now, advances, req, issuedAt>>

\* python gateway.py --generate-token with a store that is up or not
IssueCmd ==
    /\ \E up \in BOOLEAN :
        LET g == generate_token(cleanup_old_logins(init_database(db), now), "a", now)
            o == [NoResp EXCEPT !.path = "--generate-token", !.failed = ~up]
        IN IF up /\ g.ok
           THEN /\ db' = g.db
                /\ resp' = [resp EXCEPT ![CLI] = [o EXCEPT !.page = "Token"]]
           ELSE /\ db' = IF up THEN g.db ELSE db
                /\ resp' = [resp EXCEPT ![CLI] = [o EXCEPT !.raised = TRUE]]
    /\ UNCHANGED <<db2, now, advances, pc, req, issuedAt>>

\* one request, handled from its first line to its answer
Get(s) ==
    /\ pc[s] = "serving"
    /\ \E path \in Paths, c \in Credentials, q \in Queries, st \in Stores :
        LET r == [path |-> path, token |-> ExtractToken(c), hdr |-> Bare,
                  q |-> IF path = "/search" THEN q ELSE <<>>]
            o == do_GET(db, r, now, st)
        IN /\ o.db.seq <= MaxLogins
           /\ db' = o.db
           /\ resp' = [resp EXCEPT ![s] = Observed(r, st, o, db, now)]
    /\ UNCHANGED <<db2, now, advances, pc, req, issuedAt>>

NextFailure ==
    \/ Advance
    \/ IssueCmd
    \/ \E s \in Servers : StartServer(s)
    \/ \E s \in Servers : Get(s)

SpecFailure == Init /\ [][NextFailure]_vars

\* ------------------------------------------------ user agent specification
\* a User-Agent of n units, no two neighbours alike
Agent(n) == Str([i \in 1..n |-> IF i % 2 = 1 THEN "u" ELSE "v"])

\* the User-Agents that arrive: none, an empty one, one of a few units, and
\* the ones at the limit and one unit beyond it
Agents == {None, Agent(0), Agent(MaxLogins), Agent(UA_LIMIT), Agent(UA_LIMIT + 1)}

\* a server is serving and a token has been issued
InitAgents ==
    LET t0 == timedelta(LOGIN_RETENTION_DAYS)
        g == generate_token(init_database(EmptyDb), "a", t0)
    IN /\ db = g.db
       /\ db2 = EmptyDb
       /\ now = t0
       /\ advances = 0
       /\ pc = [s \in Servers |-> "serving"]
       /\ req = [s \in Servers |-> NoReq]
       /\ issuedAt = [t \in Tokens |-> IF t = MakeToken("a") THEN t0 ELSE -1]
       /\ resp = [p \in Servers \cup {CLI} |-> NoResp]

\* one request with a User-Agent header, handled from its first line to its
\* answer
GetAgent(s) ==
    /\ pc[s] = "serving"
    /\ \E path \in Paths, c \in Credentials, ua \in Agents :
        LET r == [path |-> path, token |-> ExtractToken(c),
                  hdr |-> [Bare EXCEPT !.ua = ua], q |-> <<>>]
            o == do_GET(db, r, now, AllUp)
        IN /\ o.db.seq <= MaxLogins
           /\ db' = o.db
           /\ resp' = [resp EXCEPT ![s] = Observed(r, AllUp, o, db, now)]
    /\ UNCHANGED <<db2, now, advances, pc, req, issuedAt>>

NextAgents ==
    \/ Tick
    \/ \E s \in Servers : GetAgent(s)

SpecAgents == InitAgents /\ [][NextAgents]_vars

\* ------------------------------------------------------------------ claims
Issued(t) == issuedAt[t] # -1

ExpiryOf(t) == issuedAt[t] + timedelta(TOKEN_DAYS)

\* text t occurs in text f
Contains(f, t) ==
    \E i \in 1..(Len(f) - Len(t) + 1) : SubSeq(f, i, i + Len(t) - 1) = t

\* every candidate the handler can pass to verify_token
Candidates == {ExtractToken(c) : c \in Credentials}

\* candidates that carry the prefix, issued or not
Prefixed == Tokens \cup {PREFIX, PREFIX \o <<"x">>}

\* C1: a token verifies at the instant it was issued: VerifyToken(T) called
\* right after the IssueToken() that returned T gives true.
C1_VerifyAfterIssue ==
    \A t \in Tokens : issuedAt[t] = now => verify_token(db, Str(t), now).ok

C1_Witness ==
    \E t \in Tokens : issuedAt[t] = now /\ verify_token(db, Str(t), now).ok

\* C2: for a prefixed candidate VerifyToken is true exactly when its row exists
\* and now < expires_at, where expires_at is the issuance time plus 28 days:
\* true one tick before expiry, false at the expiry instant and after.
C2_VerifyIffUnexpired ==
    \A t \in Prefixed :
        LET v == verify_token(db, Str(t), now)
            rows == {r \in db.tokens : r.hash = Digests[t]}
        IN /\ v.ok <=> (t \in Tokens /\ Issued(t) /\ now < ExpiryOf(t))
           /\ v.ok <=> \E r \in rows : now < fromisoformat(r.expires_at)
           /\ (t \in Tokens /\ Issued(t)) <=> rows # {}

C2_Witness ==
    \E t1, t2 \in Tokens :
        /\ Issued(t1) /\ now = ExpiryOf(t1) - 1 /\ verify_token(db, Str(t1), now).ok
        /\ Issued(t2) /\ now = ExpiryOf(t2) /\ ~verify_token(db, Str(t2), now).ok

\* C3: the query is forwarded to the search service only for a request whose
\* token was verified and whose login has been recorded.
C3_ForwardOnlyVerifiedAndLogged ==
    \A s \in Servers : pc[s] = "logged" => req[s].ok /\ req[s].nlog = 1

C3_Witness ==
    \E s \in Servers : pc[s] = "logged" /\ req[s].q # <<>> /\ req[s].ok

\* C4: the tables do not depend on the search queries: a run that gets the
\* same requests with other queries has the same tokens and logins rows.
C4_QueryIndependent == db2 = db

C4_Witness ==
    \E s \in Servers : pc[s] = "logged" /\ req[s].q # <<>> /\ db.logins # {} /\ db2 = db

\* C5 as stated: no field of any row contains the plaintext of an issued token.
C5_NoPlaintextInAnyField ==
    \A t \in Tokens : Issued(t) =>
        /\ \A r \in db.tokens :
              ~Contains(r.hash, t) /\ ~Contains(r.created_at, t) /\ ~Contains(r.expires_at, t)
        /\ \A l \in db.logins :
              /\ ~Contains(l.token_hash, t) /\ ~Contains(l.timestamp, t)
              /\ ~Contains(l.ip_address, t) /\ ~Contains(l.user_agent, t)

\* C5 as amended: the fields the gateway fills from the token (tokens.hash,
\* logins.token_hash) hold the SHA-256 digest of an issued token and, like the
\* time fields, never its plaintext; ip_address and user_agent hold the text of
\* the request's headers.
C5_OnlyDigestStored ==
    /\ \A r \in db.tokens :
          /\ \E t \in Tokens : Issued(t) /\ r.hash = Digests[t]
          /\ \A t \in Tokens :
                ~Contains(r.hash, t) /\ ~Contains(r.created_at, t) /\ ~Contains(r.expires_at, t)
    /\ \A l \in db.logins :
          /\ \E t \in Tokens : Issued(t) /\ l.token_hash = Digests[t]
          /\ \A t \in Tokens : ~Contains(l.token_hash, t) /\ ~Contains(l.timestamp, t)
          /\ \E h \in Headers :
                /\ l.ip_address = get_client_ip([hdr |-> h])
                /\ l.user_agent = Slice(IF Truthy(h.ua) THEN h.ua.s ELSE <<>>, UA_LIMIT)

C5_Witness ==
    /\ db.tokens # {}
    /\ \E l \in db.logins, t \in Tokens : Issued(t) /\ Contains(l.user_agent, t)

\* C6: a token row is written once, at issuance, with expires_at 28 days after
\* created_at, and stays as written: there is exactly one row per issued token
\* and it is the row of its first issuance.
C6_TokenRowFixed ==
    /\ \A t \in Tokens : Issued(t) =>
          [hash |-> Digests[t], created_at |-> isoformat(issuedAt[t]),
           expires_at |-> isoformat(ExpiryOf(t))] \in db.tokens
    /\ Cardinality(db.tokens) = Cardinality({t \in Tokens : Issued(t)})
    /\ \A r \in db.tokens :
          fromisoformat(r.expires_at) = fromisoformat(r.created_at) + timedelta(TOKEN_DAYS)

C6_Witness ==
    /\ \E t \in Tokens : Issued(t) /\ now > ExpiryOf(t)
    /\ Cardinality(db.tokens) = 2
    /\ db.logins # {}

\* C7: VerifyToken leaves the tables as they are, whatever the candidate and
\* whatever it returns.
C7_VerifyNoSideEffect ==
    \A c \in Candidates \cup {Str(t) : t \in Prefixed} :
        verify_token(db, c, now).db = db

C7_Witness ==
    /\ db.logins # {}
    /\ \E t1, t2 \in Tokens :
          /\ verify_token(db, Str(t1), now).ok
          /\ Issued(t2) /\ ~verify_token(db, Str(t2), now).ok

\* C8: an empty, absent or unprefixed candidate is rejected without reading
\* the tokens table.
C8_RejectWithoutLookup ==
    \A c \in Candidates \cup {Str(<<>>), None, Str(Malformed)} :
        (~Truthy(c) \/ ~startswith(c.s, PREFIX)) =>
            LET v == verify_token(db, c, now)
            IN ~v.ok /\ ~v.lookup /\ v.db = db

C8_Witness ==
    /\ db.tokens # {}
    /\ \E s \in Servers : pc[s] = "serving"
    /\ None \in Candidates /\ Str(<<>>) \in Candidates /\ Str(Malformed) \in Candidates
    /\ ~verify_token(db, None, now).lookup
    /\ \E t \in Tokens : verify_token(db, Str(t), now).lookup

\* C9: a request whose token verifies, on "/" or on "/search", with or without
\* a query, goes on to record its login, and recording adds exactly one row,
\* also when the token has rows already; nothing else in the request adds one.
C9_OneLoginPerRequest ==
    /\ [](\A path \in {"/", "/search"}, c \in Candidates :
            LET v == verify_token(db, c, now)
            IN v.ok => Authorized([path |-> path, token |-> c], v))
    /\ [][\A s \in Servers :
            /\ (pc[s] = "serving" /\ pc'[s] = "verified") => db'.logins = db.logins
            /\ (pc[s] = "verified" /\ pc'[s] # "verified") =>
                  /\ Cardinality(db'.logins \ db.logins) = 1
                  /\ \A l \in db'.logins \ db.logins :
                        l.id = db.seq + 1 /\ l.token_hash = hash_token(req[s].token.s)
                  /\ db.logins \subseteq db'.logins
            /\ (pc[s] = "logged") => db'.logins \subseteq db.logins]_vars

C9_Witness ==
    \E l1, l2 \in db.logins : l1.id # l2.id /\ l1.token_hash = l2.token_hash

\* C10: a login is recorded only for a request whose verification returned
\* true, so every logins.token_hash is the hash of a tokens row.
C10_LoginOnlyAfterVerify ==
    /\ \A s \in Servers : pc[s] \in {"verified", "logged"} => req[s].ok
    /\ \A s \in Servers : req[s].nlog > 0 => req[s].ok
    /\ \A l \in db.logins : \E r \in db.tokens : r.hash = l.token_hash

C10_Witness ==
    \E l \in db.logins, t \in Tokens :
        l.token_hash = Digests[t] /\ ~verify_token(db, Str(t), now).ok

\* the instant before which logins are out of the retention window
Cutoff(t) == t - timedelta(LOGIN_RETENTION_DAYS)

TimeOf(l) == fromisoformat(l.timestamp)

\* C11: PruneOldLogins(90) deletes exactly the rows whose timestamp is before
\* now - 90 days, keeps the others (one at the cutoff too) as they are and
\* leaves the tokens alone.
C11_PruneExact ==
    LET d == cleanup_old_logins(db, now)
    IN /\ d.logins = {l \in db.logins : TimeOf(l) >= Cutoff(now)}
       /\ d.tokens = db.tokens
       /\ d.seq = db.seq /\ d.schema = db.schema

\* after a sweep: two logins were recorded, the one at the cutoff is left
C11_Witness ==
    /\ db.seq = 2 /\ Cardinality(db.logins) = 1
    /\ \E l \in db.logins : TimeOf(l) = Cutoff(now)
    /\ db.tokens # {}

\* C12 as stated: of two runs in succession, the second one at the clock
\* reading of the first or a tick later, the second deletes nothing.
C12_SecondRunDeletesNothing ==
    \A j \in {0, 1} :
        LET d1 == cleanup_old_logins(db, now)
        IN cleanup_old_logins(d1, now + j) = d1

\* C12 as amended: a second run at the same clock reading deletes nothing; a
\* second run a tick later deletes exactly the rows that left the window in
\* that tick.
C12_SecondRunSameInstant ==
    LET d1 == cleanup_old_logins(db, now)
        d2 == cleanup_old_logins(d1, now + 1)
    IN /\ cleanup_old_logins(d1, now) = d1
       /\ d2.logins = {l \in d1.logins : TimeOf(l) >= Cutoff(now + 1)}
       /\ d2.tokens = d1.tokens

\* two rows are out of the window: a first run has both to delete
C12_Witness ==
    /\ Cardinality({l \in db.logins : TimeOf(l) < Cutoff(now)}) = 2
    /\ cleanup_old_logins(db, now).logins = {}

\* a row with this id is in the table and out of the retention window
OldRow(i) == \E l \in db.logins : l.id = i /\ TimeOf(l) < Cutoff(now)

\* C13 as stated: a LoginEvent that has become older than 90 days is
\* eventually deleted.
C13_OldLoginEventuallyDeleted ==
    \A i \in 1..MaxLogins : OldRow(i) ~> ~(\E l \in db.logins : l.id = i)

\* C13 as amended: the sweep runs when a process starts (the server, or a
\* command); each run leaves no LoginEvent older than 90 days, and no other
\* step deletes one.
C13_DeletedAtProcessStart ==
    [][LET started == \E s \in Servers : pc[s] = "inited" /\ pc'[s] = "serving"
           command == db' # db /\ UNCHANGED <<now, pc, req>>
       IN /\ (started \/ command)
                => \A l \in db'.logins : TimeOf(l) >= Cutoff(now)
          /\ ~(db.logins \subseteq db'.logins) => (started \/ command)]_vars

\* the server is up and an old row is still there
C13_Witness ==
    /\ \E s \in Servers : pc[s] = "serving"
    /\ \E i \in 1..MaxLogins : OldRow(i)

Accepting == {"serving", "verified", "logged"}

\* C14: a starting server creates the schema, then runs the sweep once, and
\* only then accepts requests: it handles no request (none verified, none
\* logged) before its sweep has finished, and it does not sweep again.
C14_SweepOnceBeforeServing ==
    [][\A s \in Servers :
        /\ pc[s] = "down" => pc'[s] \in {"down", "inited"}
        /\ pc'[s] = "inited" => db'.schema
        /\ (pc[s] = "inited" /\ pc'[s] # "inited")
              => /\ pc'[s] = "serving"
                 /\ db' = cleanup_old_logins(db, now)
        /\ pc[s] \in Accepting => pc'[s] \in Accepting \cup {"down"}
        /\ pc[s] \notin Accepting
              => /\ req'[s] = NoReq
                 /\ db'.logins \subseteq db.logins]_vars

\* the sweep of a start has emptied the table and a request is verified
C14_Witness ==
    /\ \E s \in Servers : pc[s] = "verified" /\ req[s].ok
    /\ db.seq > 0 /\ db.logins = {}

\* C15: concurrent RecordLogin calls, for the same token hash too, each add
\* exactly one row with an id no other row has, whatever the interleaving, and
\* remove or change no row that is there.
C15_ConcurrentLoginsBothPersist ==
    /\ [](\A l, k \in db.logins : l.id = k.id => l = k)
    /\ [][\A s \in Workers :
            (pc[s] = "stamped" /\ pc'[s] # "stamped")
              => \E l \in db'.logins :
                    /\ db'.logins = db.logins \cup {l}
                    /\ \A k \in db.logins : k.id # l.id
                    /\ l.token_hash = Digests[req[s].token.s]
                    /\ l.timestamp = isoformat(req[s].ts)]_vars

\* two logins of one token overlapped: the one that read the clock first was
\* inserted last, and both rows are there
C15_Witness ==
    \E l, k \in db.logins :
        /\ l.token_hash = k.token_hash
        /\ l.id > k.id /\ k.id > Backlog
        /\ TimeOf(l) < TimeOf(k)

\* the listing of show-logins in the current state
Listed == select_logins(cleanup_old_logins(init_database(db), now))

\* C19 as stated: the rows show-logins lists are the (at most) 50 LoginEvents
\* with the latest timestamps, in non-increasing order of timestamp.
C19_ListedNewestByTimestamp ==
    LET L == Listed
        shown == {L[i] : i \in DOMAIN L}
    IN /\ \A i, j \in DOMAIN L : i < j => TimeOf(L[i]) >= TimeOf(L[j])
       /\ \A l \in shown, u \in db.logins \ shown : TimeOf(l) >= TimeOf(u)

\* C19 as amended: the rows show-logins lists are the (at most) 50 LoginEvents
\* inserted last, that is with the highest ids, the last inserted first.
C19_ListedNewestById ==
    LET L == Listed
        shown == {L[i] : i \in DOMAIN L}
        lines == show_logins(cleanup_old_logins(init_database(db), now))
    IN /\ Len(L) = IF Cardinality(db.logins) < SHOW_LIMIT
                   THEN Cardinality(db.logins) ELSE SHOW_LIMIT
       /\ shown \subseteq db.logins
       /\ \A i, j \in DOMAIN L : i < j => L[i].id > L[j].id
       /\ \A l \in shown, u \in db.logins \ shown : l.id > u.id
       /\ Len(lines) = Len(L)
       /\ \A i \in DOMAIN L : lines[i][1] = L[i].timestamp

\* more rows than the listing shows, and the listing is not in timestamp order
C19_Witness ==
    /\ Cardinality(db.logins) > SHOW_LIMIT
    /\ \E i \in DOMAIN Listed : i > 1 /\ TimeOf(Listed[i - 1]) < TimeOf(Listed[i])

\* C16: when the store fails where an operation (start with schema and sweep,
\* issuance, verification, login recording) has to use it, the operation ends
\* with the exception and nothing else: no page, so no rejection that stands
\* for a false verification result, no row, no change of the database; and a
\* page that follows a login is shown only when the row was written.
C16_StorageFailurePropagates ==
    /\ [](\A p \in DOMAIN resp :
            /\ resp[p].failed
                 => /\ resp[p].raised /\ ~resp[p].wrote
                    /\ resp[p].status = 0 /\ resp[p].page = ""
            /\ resp[p].page \in {"search_page", "results_page", "Search error"}
                 => resp[p].wrote /\ ~resp[p].raised)
    /\ [][\A p \in DOMAIN resp :
            (resp'[p] # resp[p] /\ resp'[p].failed) => db' = db]_vars

\* a search with a token that verifies met a store that was down, and so did
\* a command
C16_Witness ==
    /\ \E s \in Servers : /\ resp[s].failed /\ resp[s].raised
                          /\ resp[s].path = "/search"
    /\ resp[CLI].failed /\ resp[CLI].raised
    /\ db.tokens # {}

\* the request to this path with these credentials
Ask(path, c, q) == [path |-> path, token |-> ExtractToken(c), hdr |-> Bare, q |-> q]

\* the request does not get past the token check in the current state
Rejected(r) ==
    LET called == r.path = "/search" \/ Truthy(r.token)
    IN ~called \/ ~Authorized(r, verify_token(db, r.token, now))

\* C17: for a given path, the requests that are rejected (no token, a
\* malformed one, an unknown one, an expired one) get the same status and the
\* same page, and leave the database as it is.
C17_UniformRejection ==
    \A path \in {"/", "/search"}, c1, c2 \in Credentials, q1, q2 \in Queries :
        LET o1 == do_GET(db, Ask(path, c1, q1), now, AllUp)
            o2 == do_GET(db, Ask(path, c2, q2), now, AllUp)
        IN (Rejected(Ask(path, c1, q1)) /\ Rejected(Ask(path, c2, q2)))
              => /\ o1.out = o2.out
                 /\ o1.db = db /\ o2.db = db

\* the four sub-cases are there at once (a token is expired, another was never
\* issued), and a search was answered with the rejection
C17_Witness ==
    /\ \E t \in Tokens, r \in db.tokens :
          /\ r.hash = Digests[t] /\ fromisoformat(r.expires_at) <= now
          /\ Str(t) \in Candidates
    /\ \E t \in Tokens : /\ \A r \in db.tokens : r.hash # Digests[t]
                         /\ Str(t) \in Candidates
    /\ \E c \in Credentials : ~Truthy(ExtractToken(c))
    /\ \E c \in Credentials : /\ Truthy(ExtractToken(c))
                              /\ ~verify_token(db, ExtractToken(c), now).lookup
    /\ \E s \in Servers : resp[s].status = 401

\* what C18 says is stored for a supplied user agent
Capped(ua) ==
    IF ua = None THEN <<>>
    ELSE [i \in 1..(IF Len(ua.s) < UA_LIMIT THEN Len(ua.s) ELSE UA_LIMIT) |-> ua.s[i]]

\* C18: the user_agent of every LoginEvent has at most 200 units; RecordLogin
\* stores the first 200 units of the supplied user agent, and the empty
\* string when there is none.
C18_UserAgentCapped ==
    /\ \A l \in db.logins : Len(l.user_agent) <= UA_LIMIT
    /\ \A ua \in Agents, t \in Tokens :
          LET d == log_login(db, t, CLIENT_ADDR, ua, now)
          IN \A l \in d.logins \ db.logins : l.user_agent = Capped(ua)

\* rows are stored for a user agent beyond the limit and for an absent one
C18_Witness ==
    /\ \E l \in db.logins : /\ Len(l.user_agent) = UA_LIMIT
                            /\ l.user_agent = Capped(Agent(UA_LIMIT + 1))
    /\ \E l \in db.logins : l.user_agent = <<>>

\* C20 as stated: the timestamp of every LoginEvent is strictly earlier than
\* the expires_at of the token it references.
C20_LoginBeforeExpiry ==
    \A l \in db.logins, r \in db.tokens :
        r.hash = l.token_hash => TimeOf(l) < fromisoformat(r.expires_at)

\* C20 as amended: a login is recorded only for a token that was unexpired at
\* the clock reading of its verification; the timestamp is the later clock
\* reading of the recording, not earlier than the token's created_at.
C20_VerifiedBeforeExpiry ==
    /\ [](\A l \in db.logins : \E r \in db.tokens :
            /\ r.hash = l.token_hash
            /\ fromisoformat(r.created_at) <= TimeOf(l))
    /\ [][\A s \in Servers :
            /\ (pc[s] = "serving" /\ pc'[s] = "verified")
                 => \E r \in db.tokens :
                       /\ r.hash = Digests[req'[s].token.s]
                       /\ now < fromisoformat(r.expires_at)
            /\ (pc[s] = "verified" /\ pc'[s] # "verified")
                 => \A l \in db'.logins \ db.logins :
                       /\ l.timestamp = isoformat(now)
                       /\ l.token_hash = Digests[req[s].token.s]]_vars

\* a login is there whose timestamp is the expiry instant of its token, or
\* later
C20_Witness ==
    \E l \in db.logins, r \in db.tokens :
        r.hash = l.token_hash /\ TimeOf(l) >= fromisoformat(r.expires_at)

====
